---- MODULE Spec2Model ----
(***************************************************************************)
(* Flappy Dragon (src/src/main.rs): the session state `State`, the frame   *)
(* callback `GameState::tick` and the four mode handlers it dispatches to. *)
(*                                                                         *)
(* Numbers.  player.y and player.velocity are f32 values that the program  *)
(* only ever changes by +0.1 steps, by `y += velocity`, or sets to 0.0,    *)
(* 25.0 and -1.0; they are held here in tenths (y = 250 is 25.0).  The     *)
(* cast `y as i32` truncates, so it is y \div 10 for y >= 0.  The frame    *)
(* accumulator and the elapsed time are f32 milliseconds, held in units of *)
(* 1/TIME_SCALE ms; `frame_time as i32` is frame_time \div TIME_SCALE.     *)
(***************************************************************************)
EXTENDS Integers, Naturals, Sequences, FiniteSets, TLC

\* ---- program constants -------------------------------------------------
SCREEN_WIDTH == 80
SCREEN_HEIGHT == 50
\* FRAME_DURATION = 40.0 ms, in time units
TIME_SCALE == 2
FRAME_DURATION == 40 * TIME_SCALE
\* DRAGON_FRAMES.len(), the modulus of the animation frame
DRAGON_FRAMES_LEN == 6
\* tenths per unit of y / velocity
Y_SCALE == 10

\* ---- bounds of the model -----------------------------------------------
\* largest x coordinate of the modelled world: no tick moves the player
\* beyond it and no obstacle is spawned beyond it
MaxX == 86
\* obstacles the stream may hold before a spawn is taken
MaxObstacles == 3

\* keys the host can report for a frame (ctx.key); "None" is no key,
\* "A" stands for every key no handler matches
Keys == {"None", "Space", "Escape", "P", "Q", "A"}
\* elapsed times ctx.frame_time_ms of a frame, in time units:
\* 0 ms, 40 ms, 40.5 ms
Elapsed == {0, 80, 81}
\* values of random.range(1, 40) in the spawn test
SpawnDraws == 1..39
\* values of random.range(5, 45) the model draws for a gap centre: the
\* smallest one, and one whose gap [2, 42] has a wall on both sides
GapYs == {5, 22}
\* the velocities (tenths) at which the user presses Space
FlapVelocities == {0, 9}

VARIABLES player, frame_time, obstacles, mode, score, quitting

vars == <<player, frame_time, obstacles, mode, score, quitting>>

\* ---- Player ------------------------------------------------------------
Player_new(x, y) ==
    [x |-> x, y |-> y * Y_SCALE, velocity |-> 0, frame |-> 0]

\* variant: the cap test admits the maximum itself
gravity_and_mode_CapInclusive(p) ==
    LET v == IF p.velocity <= 2 * Y_SCALE THEN p.velocity + 1 ELSE p.velocity
        y == p.y + v
    IN  [x |-> p.x + 1,
         y |-> IF y < 0 THEN 0 ELSE y,
         velocity |-> v,
         frame |-> (p.frame + 1) % DRAGON_FRAMES_LEN]

\* variant: the fall speed is not capped
gravity_and_mode_NoCap(p) ==
    LET v == p.velocity + 1
        y == p.y + v
    IN  [x |-> p.x + 1,
         y |-> IF y < 0 THEN 0 ELSE y,
         velocity |-> v,
         frame |-> (p.frame + 1) % DRAGON_FRAMES_LEN]

\* variant: y is not clamped at the top of the screen
gravity_and_mode_NoClamp(p) ==
    LET v == IF p.velocity < 2 * Y_SCALE THEN p.velocity + 1 ELSE p.velocity
    IN  [x |-> p.x + 1,
         y |-> p.y + v,
         velocity |-> v,
         frame |-> (p.frame + 1) % DRAGON_FRAMES_LEN]

gravity_and_mode(p) ==
    LET v == IF p.velocity < 2 * Y_SCALE THEN p.velocity + 1 ELSE p.velocity
        y == p.y + v
    IN  [x |-> p.x + 1,
         y |-> IF y < 0 THEN 0 ELSE y,
         velocity |-> v,
         frame |-> (p.frame + 1) % DRAGON_FRAMES_LEN]

\* variant: the impulse is added to the current velocity
flap_Adds(p) == [p EXCEPT !.velocity = p.velocity - 1 * Y_SCALE]

flap(p) == [p EXCEPT !.velocity = -1 * Y_SCALE]

\* `player.y as i32`
y_as_i32(p) == p.y \div Y_SCALE

\* ---- Obstacle ----------------------------------------------------------
i32_max(a, b) == IF a >= b THEN a ELSE b

Obstacle_new(x, gap) ==
    [x |-> x, gap_y |-> gap, size |-> i32_max(10, 40)]

\* variant: only the upper wall is tested
hit_obstacle_AboveOnly(o, p) ==
    LET half_size == o.size \div 2
        does_x_match == p.x = o.x
        player_above_gap == y_as_i32(p) < o.gap_y - half_size
    IN  does_x_match /\ player_above_gap

\* variant: the lower wall starts on the gap's last row
hit_obstacle_Inclusive(o, p) ==
    LET half_size == o.size \div 2
        does_x_match == p.x = o.x
        player_above_gap == y_as_i32(p) < o.gap_y - half_size
        player_below_gap == y_as_i32(p) >= o.gap_y + half_size
    IN  does_x_match /\ (player_above_gap \/ player_below_gap)

hit_obstacle(o, p) ==
    LET half_size == o.size \div 2
        does_x_match == p.x = o.x
        player_above_gap == y_as_i32(p) < o.gap_y - half_size
        player_below_gap == y_as_i32(p) > o.gap_y + half_size
    IN  does_x_match /\ (player_above_gap \/ player_below_gap)

\* ---- State -------------------------------------------------------------
Init ==
    /\ player = Player_new(5, 25)
    /\ frame_time = 0
    /\ \E g \in GapYs : obstacles = <<Obstacle_new(SCREEN_WIDTH, g)>>
    /\ mode = "Menu"
    /\ score = 0
    /\ quitting = FALSE

\* `frame_time as i32`
frame_time_as_i32(ft) == ft \div TIME_SCALE

\* the obstacles the player has passed (first loop of play)
Passed(obs, p) == {i \in 1..Len(obs) : p.x > obs[i].x}

\* variant: the bottom boundary is not tested
Dies_NoFall(obs, p) ==
    \E i \in 1..Len(obs) : hit_obstacle(obs[i], p)

\* the death test of play's second loop: evaluated once per obstacle
Dies(obs, p) ==
    \E i \in 1..Len(obs) :
        y_as_i32(p) > SCREEN_HEIGHT \/ hit_obstacle(obs[i], p)

\* variant: the spawn test looks at the draw only
Spawns_IgnoresTimer(ft, r) == r % 10 = 0

\* the spawn test of play: the draw is made only when the first operand
\* of && holds
Spawns(ft, r) == frame_time_as_i32(ft) % 50 = 0 /\ r % 10 = 0

\* the draws that keep the stream and the world within the bounds
Draws(p) ==
    IF Len(obstacles) < MaxObstacles /\ p.x + SCREEN_WIDTH <= MaxX
    THEN SpawnDraws
    ELSE {r \in SpawnDraws : r % 10 # 0}

\* the streams the spawn step of play can leave
Spawned(ft, p) ==
    {IF Spawns(ft, r)
     THEN Append(obstacles, Obstacle_new(p.x + SCREEN_WIDTH, g))
     ELSE obstacles : r \in Draws(p), g \in GapYs}

\* variant: the pause arm is the catch-all arm of the key match
KeyMode_AnyKeyPauses(key) ==
    IF key \in {"None", "Space"} THEN mode ELSE "Pause"

\* mode after the key match of play
KeyMode(key) == IF key = "Escape" THEN "Pause" ELSE mode

\* variant: the death loop is skipped once the frame has paused
DeathMode_PauseWins(obs, p, m) ==
    IF m = "Pause" THEN m ELSE IF Dies(obs, p) THEN "End" ELSE m

\* mode after the death loop of play
DeathMode(obs, p, m) == IF Dies(obs, p) THEN "End" ELSE m

\* variant: the newest obstacle is removed (pop) instead of the oldest
Popped_Last(obs, p) ==
    IF Passed(obs, p) # {} THEN SubSeq(obs, 1, Len(obs) - 1) ELSE obs

\* the stream after `if pop_obstacle { obstacles.remove(0) }`
Popped(obs, p) == IF Passed(obs, p) # {} THEN Tail(obs) ELSE obs

\* the accumulated time exceeds the frame duration: a physics tick fires
Fires(ft, ms) == ft + ms > FRAME_DURATION

\* variant: the frame duration is subtracted and the remainder carried over
Accumulate_Subtracts(ft, ms) ==
    IF Fires(ft, ms) THEN ft + ms - FRAME_DURATION ELSE ft + ms

\* frame_time after the accumulate / reset step
Accumulate(ft, ms) == IF Fires(ft, ms) THEN 0 ELSE ft + ms

play(key, ms) ==
    LET fires == Fires(frame_time, ms)
        ft2   == Accumulate(frame_time, ms)
        p1    == IF fires THEN gravity_and_mode(player) ELSE player
        p2    == IF key = "Space" THEN flap(p1) ELSE p1
    IN  /\ mode = "Playing"
        /\ fires => player.x < MaxX
        /\ key = "Space" => p1.velocity \in FlapVelocities
        /\ \E obs1 \in Spawned(ft2, p2) :
              /\ frame_time' = ft2
              /\ player' = p2
              /\ score' = score + Cardinality(Passed(obs1, p2))
              /\ mode' = DeathMode(obs1, p2, KeyMode(key))
              /\ obstacles' = Popped(obs1, p2)
        /\ UNCHANGED quitting

\* variant: the score survives a restart
restart_KeepScore(gap) ==
    /\ player' = Player_new(5, 25)
    /\ frame_time' = 0
    /\ obstacles' = <<Obstacle_new(SCREEN_WIDTH, gap)>>
    /\ mode' = "Playing"
    /\ score' = score

restart(gap) ==
    /\ player' = Player_new(5, 25)
    /\ frame_time' = 0
    /\ obstacles' = <<Obstacle_new(SCREEN_WIDTH, gap)>>
    /\ mode' = "Playing"
    /\ score' = 0

\* variant: resuming goes back to the menu
continue_game_ToMenu ==
    /\ mode' = "Menu"
    /\ UNCHANGED <<player, frame_time, obstacles, score>>

\* variant: resuming clears the accumulator
continue_game_ResetsTimer ==
    /\ mode' = "Playing"
    /\ frame_time' = 0
    /\ UNCHANGED <<player, obstacles, score>>

continue_game ==
    /\ mode' = "Playing"
    /\ UNCHANGED <<player, frame_time, obstacles, score>>

main_menu(key, gap) ==
    /\ mode = "Menu"
    /\ CASE key = "P" -> restart(gap) /\ UNCHANGED quitting
         [] key = "Q" -> quitting' = TRUE
                         /\ UNCHANGED <<player, frame_time, obstacles, mode, score>>
         [] OTHER -> UNCHANGED vars

\* variant: the pause menu also offers (P) Play Game
pause_menu_Restarts(key) ==
    /\ mode = "Pause"
    /\ CASE key = "Escape" -> continue_game /\ UNCHANGED quitting
         [] key = "P" -> (\E gap \in GapYs : restart(gap)) /\ UNCHANGED quitting
         [] key = "Q" -> quitting' = TRUE
                         /\ UNCHANGED <<player, frame_time, obstacles, mode, score>>
         [] OTHER -> UNCHANGED vars

pause_menu(key) ==
    /\ mode = "Pause"
    /\ CASE key = "Escape" -> continue_game /\ UNCHANGED quitting
         [] key = "Q" -> quitting' = TRUE
                         /\ UNCHANGED <<player, frame_time, obstacles, mode, score>>
         [] OTHER -> UNCHANGED vars

dead(key, gap) ==
    /\ mode = "End"
    /\ CASE key = "P" -> restart(gap) /\ UNCHANGED quitting
         [] key = "Q" -> quitting' = TRUE
                         /\ UNCHANGED <<player, frame_time, obstacles, mode, score>>
         [] OTHER -> UNCHANGED vars

\* GameState::tick: one frame; the host stops calling once quitting is set
tick(key, ms) ==
    /\ ~quitting
    /\ \/ \E gap \in GapYs : main_menu(key, gap)
       \/ \E gap \in GapYs : dead(key, gap)
       \/ play(key, ms)
       \/ pause_menu(key)

Next == \E key \in Keys, ms \in Elapsed : tick(key, ms)

Spec == Init /\ [][Next]_vars

\* ---- a session left to fall ---------------------------------------------
\* the state restart leaves
InitFall ==
    /\ player = Player_new(5, 25)
    /\ frame_time = 0
    /\ \E g \in GapYs : obstacles = <<Obstacle_new(SCREEN_WIDTH, g)>>
    /\ mode = "Playing"
    /\ score = 0
    /\ quitting = FALSE

\* a frame of play in which the user presses neither Space nor Escape
NextFall ==
    \E key \in Keys \ {"Space", "Escape"}, ms \in Elapsed : play(key, ms)

\* such a frame in which the physics tick fires
FallTick == NextFall /\ player'.x = player.x + 1

\* the host keeps calling tick and time keeps passing, so ticks keep firing
SpecFall == InitFall /\ [][NextFall]_vars /\ WF_vars(FallTick)

\* ========================================================================
\* Properties
\* ========================================================================

\* a frame handled by play with the given key
PlayFrame(key) == \E ms \in Elapsed : play(key, ms)

\* the state restart leaves, in the program's own numbers
Fresh ==
    /\ mode = "Playing"
    /\ score = 0
    /\ frame_time = 0
    /\ Len(obstacles) = 1
    /\ obstacles[1].x = 80
    /\ player.x = 5
    /\ player.y = 250
    /\ player.velocity = 0
    /\ player.frame = 0

\* C1: a Playing frame at whose end the truncated player.y exceeds
\* SCREEN_HEIGHT ends with mode = End, whatever the stream holds.
C1_FallEndsDead ==
    [][(mode = "Playing" /\ player'.y \div 10 > 50) => mode' = "End"]_vars

\* C2: a Playing frame raises the score by at most 1, and every obstacle
\* the player has passed (player.x > obstacle.x) is scored and removed in
\* that same frame, so none is left in the stream to be scored again.
C2_ScoredOnceAndRemoved ==
    [][mode = "Playing" =>
          /\ score' <= score + 1
          /\ \A i \in 1..Len(obstacles') : ~(player'.x > obstacles'[i].x)]_vars

\* C3: the obstacle stream is strictly increasing in x from head to tail.
C3_StrictlyIncreasing ==
    \A i, j \in 1..Len(obstacles) : i < j => obstacles[i].x < obstacles[j].x

\* C4 (as stated): a Playing frame whose input is Escape ends with
\* mode = Pause.
C4_EscapeAlwaysPauses ==
    [][PlayFrame("Escape") => mode' = "Pause"]_vars

\* C4 (amended): a Playing frame whose input is Escape ends with mode =
\* Pause, unless the frame's death test fires (the player hits an obstacle,
\* or is past the bottom boundary), and then it ends with mode = End.
C4_EscapePausesUnlessDead ==
    [][PlayFrame("Escape") =>
          /\ mode' \in {"Pause", "End"}
          /\ mode' = "End" =>
                \/ player'.y \div 10 > 50
                \/ \E i \in 1..Len(obstacles') :
                      hit_obstacle(obstacles'[i], player')
          /\ mode' = "Pause" =>
                /\ \A i \in 1..Len(obstacles') :
                      ~hit_obstacle(obstacles'[i], player')
                /\ player'.y \div 10 > 50 => obstacles' = <<>>]_vars

\* a Playing frame with Escape has ended in Pause after a physics tick
C4_Witness == mode = "Pause" /\ player.x > 5

C6_GapInsidePlayfield ==
    \A i \in 1..Len(obstacles) :
        /\ 0 <= obstacles[i].gap_y - obstacles[i].size \div 2
        /\ obstacles[i].gap_y + obstacles[i].size \div 2 <= 50 - 1

\* C7: a P key handled in Menu or in End leaves mode = Playing, score = 0,
\* frame_time = 0, one obstacle at x = 80 and the player at x = 5, y = 25,
\* velocity 0, frame 0.
C7_PlayInputResets ==
    [][(\E gap \in GapYs : main_menu("P", gap) \/ dead("P", gap)) => Fresh']_vars

\* the session has been restarted
C7_Witness == Fresh /\ ~quitting

\* C8 (as stated): from Playing, Pause and End, a frame with the P key
\* resets the score, the stream and the player.
C8_RestartFromAnyMode ==
    [][(mode \in {"Playing", "Pause", "End"} /\ \E ms \in Elapsed : tick("P", ms)) =>
          /\ score' = 0
          /\ Len(obstacles') = 1 /\ obstacles'[1].x = 80
          /\ player'.x = 5 /\ player'.y = 250 /\ player'.velocity = 0]_vars

\* C8 (amended): from End (as from Menu) a frame with the P key resets the
\* score to 0, the stream to a single fresh obstacle and the player to the
\* initial position and velocity; in Playing and in Pause the P key restarts
\* nothing: the frame is the frame of an unmatched key.
C8_RestartOnlyFromEnd ==
    [][/\ (mode = "End" /\ \E ms \in Elapsed : tick("P", ms)) =>
             /\ score' = 0
             /\ Len(obstacles') = 1 /\ obstacles'[1].x = 80
             /\ player'.x = 5 /\ player'.y = 250 /\ player'.velocity = 0
       /\ (mode = "Pause" /\ \E ms \in Elapsed : tick("P", ms)) =>
             UNCHANGED vars
       /\ (mode = "Playing" /\ \E ms \in Elapsed : tick("P", ms)) =>
             /\ score' >= score
             /\ player'.x >= player.x
             /\ player'.velocity >= player.velocity
             /\ mode' # "Pause"]_vars

\* a session that ended with points scored and more than one obstacle: the
\* state a restart from End has to reset
C8_Witness == mode = "End" /\ score > 0 /\ Len(obstacles) > 1

\* C9: the mode starts as Menu and changes only along Menu->Playing (P),
\* Playing->Pause (Escape), Playing->End, Pause->Playing (Escape) and
\* End->Playing (P); quitting is set only by a Q key in Menu, Pause or End.
C9_ModeTransitions ==
    /\ mode = "Menu"
    /\ [][/\ mode' # mode =>
                \/ mode = "Menu" /\ mode' = "Playing"
                      /\ \E gap \in GapYs : main_menu("P", gap)
                \/ mode = "Playing" /\ mode' = "Pause" /\ PlayFrame("Escape")
                \/ mode = "Playing" /\ mode' = "End"
                      /\ \/ player'.y \div 10 > 50
                         \/ \E i \in 1..Len(obstacles') :
                               hit_obstacle(obstacles'[i], player')
                \/ mode = "Pause" /\ mode' = "Playing" /\ pause_menu("Escape")
                \/ mode = "End" /\ mode' = "Playing"
                      /\ \E gap \in GapYs : dead("P", gap)
          /\ quitting' # quitting =>
                /\ quitting'
                /\ mode \in {"Menu", "Pause", "End"}
                /\ mode' = mode
                /\ \E ms \in Elapsed : tick("Q", ms)]_vars

\* the quit signal was set in End, a mode entered from Playing
C9_Witness == quitting /\ mode = "End"

\* C10: while mode = Pause no frame changes the player, the stream, the
\* score or frame_time; the only mode change is to Playing, and it changes
\* nothing else.
C10_PauseFreezes ==
    [][mode = "Pause" =>
          /\ UNCHANGED <<player, obstacles, score, frame_time>>
          /\ mode' # mode => (mode' = "Playing" /\ UNCHANGED quitting)]_vars

\* a paused session with a part-filled accumulator, a spawned obstacle and
\* a moved player
C10_Witness ==
    /\ mode = "Pause"
    /\ frame_time > 0
    /\ Len(obstacles) > 1
    /\ player.x > 5

\* the keys the handler of mode m does not match
Unmatched(m) ==
    CASE m = "Playing" -> {"P", "Q", "A"}
      [] m = "Pause"   -> {"Space", "P", "A"}
      [] OTHER         -> {"Space", "Escape", "A"}

\* C11: a frame whose key the current mode's handler does not match acts as
\* a frame with no key: in Menu, Pause and End nothing changes; in Playing
\* the key causes no pause, no flap (the velocity is the one gravity
\* leaves) and no quit.
C11_UnmatchedKeyIsNoKey ==
    [][\/ IF mode = "Playing"
          THEN /\ mode' \in {"Playing", "End"}
               /\ quitting' = quitting
               /\ player'.velocity =
                     IF player'.x = player.x THEN player.velocity
                     ELSE IF player.velocity < 20 THEN player.velocity + 1
                     ELSE player.velocity
          ELSE UNCHANGED vars
       \/ ~(\E key \in Unmatched(mode), ms \in Elapsed : tick(key, ms))]_vars

\* a Playing session that has gone on, unpaused and without the quit
\* signal, past a frame that left the accumulator part-filled
C11_Witness ==
    /\ mode = "Playing"
    /\ ~quitting
    /\ frame_time = 80
    /\ player.velocity > 0

\* C12: a Playing frame fires one physics tick and zeroes frame_time when
\* frame_time + elapsed > 40 ms (80 time units), and otherwise fires none
\* and keeps the sum; player.x moves only in such a tick, by +1, and goes
\* back to 5 only in a restart, so the animation frame counts the ticks
\* modulo 6; frame_time stays within 0..40 ms.
C12_OneTickPerFrame ==
    /\ [](/\ 0 <= frame_time
          /\ frame_time <= 80
          /\ player.x >= 5
          /\ player.frame = (player.x - 5) % 6)
    /\ [][/\ mode = "Playing" =>
                \E ms \in Elapsed :
                    IF frame_time + ms > 80
                    THEN frame_time' = 0 /\ player'.x = player.x + 1
                    ELSE frame_time' = frame_time + ms /\ player'.x = player.x
          /\ mode # "Playing" =>
                \/ player'.x = player.x
                \/ player'.x = 5 /\ mode' = "Playing" /\ mode \in {"Menu", "End"}]_vars

\* ticks have fired and a later frame left exactly 40 ms accumulated
\* without firing one
C12_Witness == frame_time = 80 /\ player.x > 5 /\ player.frame = (player.x - 5) % 6

\* C13: a Playing frame that handles Space ends with velocity = -1.0 (-10
\* tenths), whatever the velocity was and whether or not the frame fired a
\* tick; the next tick then moves y by -0.9, clamped at 0, and leaves
\* velocity = -0.9 (or -1.0 again when that frame handles Space too).
C13_FlapOverridesVelocity ==
    [][/\ player'.velocity = -10 \/ ~PlayFrame("Space")
       /\ (mode = "Playing" /\ player.velocity = -10 /\ player'.x = player.x + 1) =>
             /\ player'.y = IF player.y - 9 < 0 THEN 0 ELSE player.y - 9
             /\ player'.velocity = -9 \/ (player'.velocity = -10 /\ PlayFrame("Space"))]_vars

\* the tick after a flap has fired: velocity -0.9, above the start height
C13_Witness == mode = "Playing" /\ player.velocity = -9 /\ player.y < 250

\* C14: player.y is never negative, and a tick whose y + velocity would be
\* below 0 leaves y at exactly 0.
C14_YClampedAtTop ==
    /\ [](player.y >= 0)
    /\ [][(/\ mode = "Playing"
           /\ player'.x = player.x + 1
           /\ player.y + (IF player.velocity < 20 THEN player.velocity + 1
                          ELSE player.velocity) < 0)
          => player'.y = 0]_vars

\* the player is held at the top of the screen while still moving upward
C14_Witness == mode = "Playing" /\ player.y = 0 /\ player.velocity < 0

\* min(2.0, 0.1 * n) in tenths
FallVelocity(n) == IF n < 20 THEN n ELSE 20

\* the sum over k = 1..n of min(2.0, 0.1 * k), in tenths
RECURSIVE FallSum(_)
FallSum(n) == IF n = 0 THEN 0 ELSE FallSum(n - 1) + FallVelocity(n)

\* the player is where n = player.x - 5 ticks without a flap put it
OnFallTrack ==
    /\ player.velocity = FallVelocity(player.x - 5)
    /\ player.y = 250 + FallSum(player.x - 5)

\* C15: a restarted session is on the free-fall track (n = 0), and a tick
\* without a flap keeps it there: after n ticks velocity = min(2.0, 0.1 n)
\* and y = 25 + sum of min(2.0, 0.1 k) for k = 1..n; y does not decrease
\* and is never negative.
C15_FreeFallTrack ==
    /\ [](Fresh => OnFallTrack)
    /\ [][(/\ mode = "Playing"
           /\ OnFallTrack
           /\ player'.x = player.x + 1
           /\ player'.velocity # -10)
          => /\ OnFallTrack'
             /\ player'.y >= player.y
             /\ player'.y >= 0]_vars

\* the end of the free fall: 23 ticks without a flap, y = 52.0 at the
\* capped velocity
C15_Witness ==
    /\ OnFallTrack
    /\ player.x = 28
    /\ player.y = 520
    /\ player.velocity = 20

\* C16: the stream gains an obstacle only in a Playing frame, one per
\* frame, at the tail, with x = player.x + 80 for the player.x the frame
\* leaves, and only when the frame_time the frame leaves truncates to 0
\* modulo 50 (it is below 1 ms); Pause changes no stream and Menu and End
\* only replace it by the restart's single obstacle.
C16_SpawnRule ==
    [][/\ mode = "Playing" =>
             LET n == Len(obstacles')
             IN  \/ obstacles' = obstacles
                 \/ obstacles # <<>> /\ obstacles' = Tail(obstacles)
                 \/ /\ n >= 1
                    /\ obstacles'[n].x = player'.x + 80
                    /\ (frame_time' \div 2) % 50 = 0
                    /\ frame_time' < 2
                    /\ \/ obstacles' = Append(obstacles, obstacles'[n])
                       \/ obstacles' = Tail(Append(obstacles, obstacles'[n]))
       /\ mode = "Pause" => obstacles' = obstacles
       /\ mode \in {"Menu", "End"} =>
             \/ obstacles' = obstacles
             \/ Len(obstacles') = 1 /\ obstacles'[1].x = 80 /\ mode' = "Playing"]_vars

\* an obstacle was appended at the tail, one screen width ahead of the
\* player, in a frame that fired a tick
C16_Witness ==
    /\ mode = "Playing"
    /\ player.x > 5
    /\ frame_time = 0
    /\ Len(obstacles) >= 2
    /\ obstacles[Len(obstacles)].x = player.x + 80

\* C17: the velocity stays within -1.0 .. 2.0 (tenths -10 .. 20); in a
\* Playing frame it rises only by the 0.1 of gravity and falls only to the
\* -1.0 of a flap.
C17_VelocityRange ==
    /\ [](-10 <= player.velocity /\ player.velocity <= 20)
    /\ [][mode = "Playing" =>
             /\ player'.velocity > player.velocity =>
                   /\ player'.velocity = player.velocity + 1
                   /\ player'.x = player.x + 1
             /\ player'.velocity < player.velocity =>
                   /\ player'.velocity = -10
                   /\ PlayFrame("Space")]_vars

\* ticks have fired at the capped velocity with the game still on
C17_Witness == mode = "Playing" /\ player.velocity = 20 /\ player.x > 26

\* C18: while the game is alive (Playing or Pause) the player is in no
\* wall: every obstacle at the player's x has the player's row inside its
\* gap, gap_y - size/2 .. gap_y + size/2.
C18_NoCollisionSkipped ==
    mode \in {"Playing", "Pause"} =>
        \A i \in 1..Len(obstacles) :
            obstacles[i].x = player.x =>
                /\ obstacles[i].gap_y - obstacles[i].size \div 2 <= player.y \div 10
                /\ player.y \div 10 <= obstacles[i].gap_y + obstacles[i].size \div 2

\* the player is alive at the x of an obstacle whose lower wall is on
\* screen, on the last row of its gap or above
C18_Witness ==
    /\ mode = "Playing"
    /\ \E i \in 1..Len(obstacles) :
          /\ obstacles[i].x = player.x
          /\ obstacles[i].gap_y = 5

\* C19: the head of the stream has the smallest x; a Playing frame removes
\* at most one obstacle, only from a non-empty stream, and it is the head,
\* with x < player.x; the other obstacles keep their order (an obstacle the
\* frame spawned follows them at the tail).
C19_HeadRemovalSafe ==
    /\ [](\A i \in 1..Len(obstacles) : obstacles[1].x <= obstacles[i].x)
    /\ [][mode = "Playing" =>
             LET n == Len(obstacles')
                 m == Len(obstacles)
             IN  \/ obstacles' = obstacles
                 \/ n = m + 1 /\ SubSeq(obstacles', 1, m) = obstacles
                 \/ /\ m >= 1
                    /\ obstacles[1].x < player'.x
                    /\ \/ obstacles' = Tail(obstacles)
                       \/ n = m /\ SubSeq(obstacles', 1, m - 1) = Tail(obstacles)]_vars

\* the first obstacle has been passed and removed; the obstacles behind it
\* are still in the stream, in order and not yet passed
C19_Witness ==
    /\ mode = "Playing"
    /\ player.x = 81
    /\ score = 1
    /\ Len(obstacles) = 2
    /\ obstacles[1].x > player.x

\* C20: a restarted session that gets no flap and no pause, with ticks
\* firing, eventually has mode = End, with score = 0 and the player still
\* short of the first obstacle (player.x < 80), whatever was spawned.
C20_FallsToDeath ==
    /\ <>(mode = "End")
    /\ [](mode = "End" => score = 0 /\ player.x < 80)

\* the free fall has ended the game at the 23rd tick, with further
\* obstacles spawned on the way
C20_Witness ==
    /\ mode = "End"
    /\ score = 0
    /\ player.x = 28
    /\ Len(obstacles) = 3

====
